---- MODULE Spec2Model ----
(***************************************************************************)
(* Dispatch and resolution pipeline of the acorn Router: route scan,       *)
(* handler invocation and result coercion (PathRoute.handle), the status   *)
(* route pass (Router.#handleStatus, StatusRoute.handle), error recovery   *)
(* (Router.#error) and the settle-once RequestEvent.                       *)
(*                                                                         *)
(* One action is one run-to-completion segment of Router.#handle between   *)
(* two awaits.  Handlers and hooks are user code: what they return, throw  *)
(* or do to the request event is chosen with \E when they complete.        *)
(*                                                                         *)
(* Spec dispatches one request through a Router as configured in its       *)
(* actions.  SpecMatches applies StatusRoute.matches() to every filter,    *)
(* SpecEvent calls respond() and error() on request events in any order,   *)
(* and SpecListen serves two concurrent requests through Router.listen()   *)
(* with its abort signal.  SpecVerbs registers routes with get(), head(),  *)
(* options(), post(), put(), patch() and delete(), SpecBody handles a      *)
(* request with a body on a route with a body schema, SpecHook gives the   *)
(* Router an async onRequest hook, and SpecFault lets a hook reject the    *)
(* event's response promise with requestEvent.error().                     *)
(***************************************************************************)
EXTENDS Integers, Sequences, FiniteSets, TLC

\* ------------------------------------------------------------------ bounds
MaxRoutes == 2
MaxStatusRoutes == 2
\* entries in the status filter of a status route whose matches() is called
MaxFilterLen == 2
\* calls of respond() and error() made on one request event
MaxCalls == 3

\* the request events in the model; the dispatch below takes the first
Requests == {1, 2}
Sequential == {1}

\* ------------------------------------------------------------------ inputs
Methods == {"GET", "POST"}

Lit(s) == [param |-> FALSE, name |-> s]
Par(s) == [param |-> TRUE, name |-> s]

\* the routes that get registered: get("/a", ...) and
\* route({ method: ["GET", "POST"], path: "/:id", ... })
RouteInputs ==
  {[path |-> <<Lit("a")>>, methods |-> {"GET"}],
   [path |-> <<Par("id")>>, methods |-> {"GET", "POST"}]}
\* request pathnames, as segments: "/a", "/b"
Pathnames == {<<"a">>, <<"b">>}

\* an entry of a status filter: an exact status code or a StatusRange tag
Code(n) == [code |-> n, range |-> "none"]
Range(t) == [code |-> 0, range |-> t]

\* status filters status routes are registered with:
\* ["client-error"], [404, "server-error"]
StatusFilters == {<<Range("client-error")>>, <<Code(404), Range("server-error")>>}

\* statuses a route handler puts on a Response it builds itself
HandlerStatuses == {200, 404}
\* statuses of the HTTP errors a handler throws (ctx.throw(), ctx.conflict())
HttpErrorStatuses == {409}

AllHooks == {"onRequest", "onNotFound", "onHandled", "onError"}
\* the hooks a Router is constructed with: none, or all four
HookSets == {{}, AllHooks}

\* ------------------------------------------------------------- HTTP status
OK == 200
NoContent == 204
BadRequest == 400
NotFound == 404
InternalServerError == 500

isInformationalStatus(s) == s >= 100 /\ s < 200
isSuccessfulStatus(s) == s >= 200 /\ s < 300
isRedirectStatus(s) == s >= 300 /\ s < 400
isClientErrorStatus(s) == s >= 400 /\ s < 500
isServerErrorStatus(s) == s >= 500 /\ s < 600
isErrorStatus(s) == s >= 400 /\ s < 600

\* ---------------------------------------------------------------- values
\* A Response: its status, what its body is, who built it (by), and the ids
\* of the status routes whose handlers rewrote it, innermost first (trail).
Resp(s, b, k, i) == [status |-> s, body |-> b, by |-> <<k, i>>, trail |-> <<>>]
\* the value `undefined` where a Response is expected
NoResponse == Resp(0, "undefined", "none", 0)

\* a thrown value: an HttpError carries its status, any other value does not
HttpErr(s) == [thrown |-> TRUE, http |-> TRUE, status |-> s]
PlainErr == [thrown |-> TRUE, http |-> FALSE, status |-> 0]
NoErr == [thrown |-> FALSE, http |-> FALSE, status |-> 0]

\* what a route handler does: the value it returns or the error it throws
HandlerResults ==
  {[kind |-> "response", status |-> s, err |-> NoErr] : s \in HandlerStatuses}
    \cup {[kind |-> k, status |-> 0, err |-> NoErr] :
            k \in {"value", "invalidValue", "undefined"}}
    \cup {[kind |-> "throw", status |-> 0, err |-> e] :
            e \in {PlainErr} \cup {HttpErr(s) : s \in HttpErrorStatuses}}

\* what a status route handler does
StatusOutcomes == {"rewrite", "undefined", "throw", "respond"}
\* what a hook that may supply a response does
HookOutcomes == {"none", "response", "throw", "respond"}

\* one entry of the per-request trace of calls into user code and into the
\* request event
Ev(e, i, o, in, rs) ==
  [ev |-> e, id |-> i, out |-> o, inp |-> in, res |-> rs, respondable |-> FALSE]

\* the call of the onError hook: `respondable` is the flag in its details
ErrEv(i, o, rs, respondable) ==
  [Ev("onError", i, o, NoResponse, rs) EXCEPT !.respondable = respondable]

VARIABLES
  routes,        \* Router.#routes: Set<Route>, in insertion order
  statusRoutes,  \* Router.#statusRoutes: Set<StatusRoute>, in insertion order
  nextId,        \* identities of the next PathRoute and StatusRoute created
  hooks,         \* which of onRequest/onNotFound/onHandled/onError are set
  handling,      \* Router.#handling: Set<Promise<Response>>
  requestEvent,  \* per request: the RequestEvent (request, responded, promise)
  frame,         \* per request: the activation of Router.#handle
  fault,         \* per request: the Router called respond() on a settled event
  trace,         \* per request: calls made and their outcomes, in order
  listener       \* Router.listen(): the signal, its abort listener, the server

vars == <<routes, statusRoutes, nextId, hooks, handling, requestEvent, frame,
          fault, trace, listener>>

\* ------------------------------------------------------------ PathRoute
\* pathname.match(this.#regexp): same number of segments, literals equal
PathMatch(path, pathname) ==
  /\ Len(path) = Len(pathname)
  /\ \A i \in 1..Len(path) : path[i].param \/ path[i].name = pathname[i]

\* the params PathRoute.matches() extracts: <<name, value>> pairs
ExtractParams(path, pathname) ==
  {<<path[i].name, pathname[i]>> : i \in {j \in 1..Len(path) : path[j].param}}

\* PathRoute.matches(): false | NOT_ALLOWED | true
matchesIgnoresMethod(rt, method, pathname) ==
  IF PathMatch(rt.path, pathname) THEN "matched" ELSE "noMatch"

matches(rt, method, pathname) ==
  IF PathMatch(rt.path, pathname)
    THEN IF method \notin rt.methods THEN "notAllowed" ELSE "matched"
    ELSE "noMatch"

\* PathRoute.handle(), after the handler settled with `result`: the Response
\* it resolves with, or the error it rejects with.  `hasParams` is what
\* `this.#params` held when handle() was entered.
RouteHandleDeclines(id, hasParams, result) ==
  IF ~hasParams
    THEN [err |-> HttpErr(InternalServerError), resp |-> NoResponse]
  ELSE IF result.kind = "throw" THEN [err |-> result.err, resp |-> NoResponse]
  ELSE IF result.kind = "response"
    THEN [err |-> NoErr, resp |-> Resp(result.status, "handler", "route", id)]
  ELSE IF result.kind = "value"
    THEN [err |-> NoErr, resp |-> Resp(OK, "json", "route", id)]
  ELSE IF result.kind = "invalidValue"
    THEN [err |-> NoErr, resp |-> Resp(BadRequest, "invalid", "route", id)]
  ELSE [err |-> NoErr, resp |-> NoResponse]

RouteHandle(id, hasParams, result) ==
  IF ~hasParams
    THEN [err |-> HttpErr(InternalServerError), resp |-> NoResponse]
  ELSE IF result.kind = "throw" THEN [err |-> result.err, resp |-> NoResponse]
  ELSE IF result.kind = "response"
    THEN [err |-> NoErr, resp |-> Resp(result.status, "handler", "route", id)]
  ELSE IF result.kind = "value"
    THEN [err |-> NoErr, resp |-> Resp(OK, "json", "route", id)]
  ELSE IF result.kind = "invalidValue"
    THEN [err |-> NoErr, resp |-> Resp(BadRequest, "invalid", "route", id)]
  ELSE [err |-> NoErr, resp |-> Resp(NoContent, "null", "route", id)]

\* ---------------------------------------------------------- StatusRoute
\* one entry of a status filter against a status
ItemMatchesErrorIsClient(item, status) ==
  IF item.range = "none" THEN status = item.code
  ELSE CASE item.range = "*" -> TRUE
         [] item.range = "info" -> isInformationalStatus(status)
         [] item.range = "success" -> isSuccessfulStatus(status)
         [] item.range = "redirect" -> isRedirectStatus(status)
         [] item.range = "client-error" -> isClientErrorStatus(status)
         [] item.range = "server-error" -> isServerErrorStatus(status)
         [] item.range = "error" -> isClientErrorStatus(status)
         [] OTHER -> FALSE

ItemMatches(item, status) ==
  IF item.range = "none" THEN status = item.code
  ELSE CASE item.range = "*" -> TRUE
         [] item.range = "info" -> isInformationalStatus(status)
         [] item.range = "success" -> isSuccessfulStatus(status)
         [] item.range = "redirect" -> isRedirectStatus(status)
         [] item.range = "client-error" -> isClientErrorStatus(status)
         [] item.range = "server-error" -> isServerErrorStatus(status)
         [] item.range = "error" -> isErrorStatus(status)
         [] OTHER -> FALSE

\* StatusRoute.matches(response)
StatusMatches(sr, response) ==
  \E i \in 1..Len(sr.status) : ItemMatches(sr.status[i], response.status)

\* the Response a status handler builds from the one it was given
Rewrite(response, id) == [response EXCEPT !.trail = Append(@, id)]

\* StatusRoute.handle(): the handler's Response if it returned one, otherwise
\* the response that was passed in
StatusHandleDiscards(sr, out, response) == response

StatusHandle(sr, out, response) ==
  IF out = "rewrite" THEN Rewrite(response, sr.id) ELSE response

\* Router.#handleStatus, the loop: `result` after every matching status route
\* of `m` was handed `response`; outs[i] is what the handler of m[i] did.
HandleStatusLoopFirstWins(m, outs, response) ==
  IF Len(m) = 0 THEN [err |-> NoErr, resp |-> response]
  ELSE IF outs[1] = "throw" THEN [err |-> PlainErr, resp |-> NoResponse]
  ELSE [err |-> NoErr, resp |-> StatusHandle(m[1], outs[1], response)]

HandleStatusLoop(m, outs, response) ==
  IF Len(m) = 0 THEN [err |-> NoErr, resp |-> response]
  ELSE IF outs[Len(m)] = "throw" THEN [err |-> PlainErr, resp |-> NoResponse]
  ELSE [err |-> NoErr, resp |-> StatusHandle(m[Len(m)], outs[Len(m)], response)]

\* ---------------------------------------------------------- RequestEvent
NewEvent(method, pathname) ==
  [method |-> method, pathname |-> pathname, body |-> "none",
   responded |-> FALSE, state |-> "pending", value |-> NoResponse]

\* RequestEvent.respond(response) on an event that has not responded
respond(ev, response) ==
  [ev EXCEPT !.responded = TRUE, !.state = "resolved", !.value = response]

\* RequestEvent.error(reason) on an event that has not responded
error(ev) == [ev EXCEPT !.responded = TRUE, !.state = "rejected"]

\* `if (this.#responded) { throw ... }` at the top of respond() and error()
AlreadyRespondedNever(ev) == FALSE

AlreadyResponded(ev) == ev.responded

\* the Response user code settles the event with when it responds itself
\* (ctx.body()/ctx.queryParams() invalid response, ctx.sendEvents(), upgrade)
OutOfBand(k, id) == Resp(BadRequest, "invalid", k, id)

\* --------------------------------------------------------------- Router
\* the default not found response of Router.#handle
NotFoundResponseAs500 == Resp(InternalServerError, "error", "notfound", 0)

NotFoundResponse == Resp(NotFound, "error", "notfound", 0)

\* the default error response of Router.#error for `cause`
ErrorResponseAlways500(cause) == Resp(InternalServerError, "error", "error", 0)

ErrorResponse(cause) ==
  IF cause.http THEN Resp(cause.status, "error", "error", 0)
  ELSE Resp(InternalServerError, "error", "error", 0)

\* `if (requestEvent.responded) { break; }` in the route loop
ScanBreaksNever(responded) == FALSE

ScanBreaks(responded) == responded

\* `if (route.matches(...))` in the route loop: the Router is written against
\* Route.matches(): boolean and enters the branch for a match only.  (The
\* NOT_ALLOWED value PathRoute.matches() returns for a method mismatch is
\* imported from constants.ts, which does not define it in these sources.)
IsMatch(result) == result = "matched"

\* listen() has not been called
NotListening ==
  [pc |-> "idle", signalled |-> FALSE, drain |-> "idle", snapshot |-> {},
   waiting |-> {}, aborted |-> FALSE, transport |-> "none", awaited |-> {}]

\* ctx.body() has not been called
Unread == [kind |-> "unread", err |-> NoErr]

IdleFrame ==
  [pc |-> "idle", response |-> NoResponse, route |-> 0, cursor |-> 0,
   site |-> "none", cause |-> NoErr, hs |-> NoResponse, hasParams |-> FALSE,
   params |-> {}, hook |-> "none", read |-> Unread, caught |-> FALSE]

Init ==
  /\ routes = <<>>
  /\ statusRoutes = <<>>
  /\ nextId = [route |-> 1, status |-> 1]
  /\ hooks \in HookSets
  /\ handling = {}
  /\ requestEvent = [r \in Requests |-> NewEvent("GET", <<"a">>)]
  /\ frame = [r \in Requests |-> IdleFrame]
  /\ fault = [r \in Requests |-> FALSE]
  /\ trace = [r \in Requests |-> <<>>]
  /\ listener = NotListening

\* Router.route()/get()/post()/...: #addRoute
AddRoute(path, methods) ==
  /\ Len(routes) < MaxRoutes
  /\ routes' = Append(routes, [id |-> nextId.route, path |-> path, methods |-> methods,
                               hasParams |-> FALSE, params |-> {}, via |-> "route", schema |-> "none"])
  /\ nextId' = [nextId EXCEPT !.route = @ + 1]
  /\ UNCHANGED <<statusRoutes, hooks, handling, requestEvent, frame, fault, trace, listener>>

\* Router.on(): add a status route
AddStatusRoute(status) ==
  /\ Len(statusRoutes) < MaxStatusRoutes
  /\ statusRoutes' = Append(statusRoutes, [id |-> nextId.status, status |-> status])
  /\ nextId' = [nextId EXCEPT !.status = @ + 1]
  /\ UNCHANGED <<routes, hooks, handling, requestEvent, frame, fault, trace, listener>>

\* where handleStatus() first suspends for `response`: at the onNotFound hook
\* or at the status handlers
HsEntryNoHook(response) == "hs_chain"

HsEntry(response) ==
  IF response.status = NotFound /\ "onNotFound" \in hooks
    THEN "hs_hook" ELSE "hs_chain"

\* `this.#onRequest?.(requestEvent)`: the call of the hook, if there is one
CallOnRequestNever(out) == <<>>

CallOnRequest(out) ==
  IF out = "absent" THEN <<>>
  ELSE <<Ev("onRequest", 0, out, NoResponse, NoResponse)>>

\* `if (!requestEvent.responded)` around the route loop
EntersRouteLoop(responded) == ~responded

\* #handle from its entry to the route loop: track the response promise,
\* call the onRequest hook without awaiting it, test `responded`.  The hook
\* returns, responds, throws, or is async and still pending ("later").
Handle(r, ev0, out) ==
  /\ frame[r].pc = "idle"
  /\ out \in (IF "onRequest" \in hooks THEN {"none", "respond", "throw", "later"}
                                       ELSE {"absent"})
  /\ LET ev1 == IF out = "respond" THEN respond(ev0, OutOfBand("onRequest", 0))
                                   ELSE ev0
     IN /\ requestEvent' = [requestEvent EXCEPT ![r] = ev1]
        /\ handling' = handling \cup {r}
        /\ frame' = [frame EXCEPT
                       ![r].pc = IF out = "throw" THEN "rejected"
                                 ELSE IF EntersRouteLoop(ev1.responded)
                                   THEN "scan" ELSE "after",
                       ![r].hook = IF out = "later" THEN "pending" ELSE "none"]
        /\ trace' = [trace EXCEPT ![r] = @ \o CallOnRequest(out)]
  /\ UNCHANGED <<routes, statusRoutes, nextId, hooks, fault, listener>>

\* #handle is called with the event of a request without a body
HandleStart(r, method, pathname, out) ==
  Handle(r, NewEvent(method, pathname), out)

\* an async onRequest hook resumes and responds to the request event, while
\* #handle, which did not await it, is suspended at one of its awaits or has
\* returned
OnRequestResponds(r) ==
  /\ frame[r].hook = "pending"
  /\ frame[r].pc \in {"handling", "hs_hook", "hs_chain", "error", "done", "rejected"}
  /\ ~requestEvent[r].responded
  /\ requestEvent' = [requestEvent EXCEPT ![r] =
                        respond(@, OutOfBand("onRequest", 0))]
  /\ frame' = [frame EXCEPT ![r].hook = "none"]
  /\ trace' = [trace EXCEPT ![r] =
                 Append(@, Ev("oob", 0, "respond", NoResponse,
                              OutOfBand("onRequest", 0)))]
  /\ UNCHANGED <<routes, statusRoutes, nextId, hooks, handling, fault, listener>>

\* the positions of the routes a Set iterator at `cursor` has yet to visit
Remaining(cursor) == {i \in 1..Len(routes) : routes[i].id > cursor}

\* PathRoute.matches() on a match: `this.#params = params`
StoreParamsKeepsFirst(rt, ps) ==
  IF rt.hasParams THEN rt ELSE [rt EXCEPT !.hasParams = TRUE, !.params = ps]

StoreParams(rt, ps) == [rt EXCEPT !.hasParams = TRUE, !.params = ps]

\* the route loop up to the next await: visit routes until one matches, then
\* enter route.handle(), which reads this.#params and calls the handler
ScanNext(r) ==
  /\ frame[r].pc = "scan"
  /\ LET ev == requestEvent[r]
         rem == Remaining(frame[r].cursor)
         hits == {i \in rem : IsMatch(matches(routes[i], ev.method, ev.pathname))}
     IN IF hits # {}
          THEN LET i == CHOOSE j \in hits : \A k \in hits : j <= k
                   ps == ExtractParams(routes[i].path, ev.pathname)
                   rt == StoreParams(routes[i], ps)
               IN /\ routes' = [routes EXCEPT ![i] = rt]
                  /\ frame' = [frame EXCEPT ![r].pc = "handling",
                                             ![r].route = rt.id,
                                             ![r].cursor = rt.id,
                                             ![r].hasParams = rt.hasParams,
                                             ![r].params = rt.params]
          ELSE /\ routes' = routes
               /\ frame' = [frame EXCEPT
                              ![r].pc = "after",
                              ![r].route = IF rem = {} THEN @ ELSE 0,
                              ![r].cursor = IF rem = {} THEN @
                                            ELSE routes[Len(routes)].id]
  /\ UNCHANGED <<statusRoutes, nextId, hooks, handling, requestEvent, fault, trace, listener>>

\* the `catch (cause)` of the route loop: an error thrown while a route is
\* handled goes to #error within the same #handle call
CatchEscapes(f, err) == [f EXCEPT !.pc = "rejected"]

Catch(f, err) == [f EXCEPT !.pc = "error", !.cause = err]

\* the await of route.handle() resumes: the handler returned or threw, after
\* responding to the request event itself when `oob`.  Lines 651-682 up to
\* the next await.
HandlerDone(r, result, oob) ==
  /\ frame[r].pc = "handling"
  /\ oob => ~requestEvent[r].responded
  /\ LET f == frame[r]
         ev1 == IF oob THEN respond(requestEvent[r], OutOfBand("handler", f.route))
                       ELSE requestEvent[r]
         h == RouteHandle(f.route, f.hasParams, result)
         entry == Ev("handler", f.route, result.kind, NoResponse, h.resp)
         own == IF oob THEN <<Ev("oob", f.route, "respond", NoResponse, ev1.value)>>
                       ELSE <<>>
     IN /\ requestEvent' = [requestEvent EXCEPT ![r] = ev1]
        /\ trace' = [trace EXCEPT ![r] = (@ \o own) \o <<entry>>]
        /\ frame' = [frame EXCEPT ![r] =
             IF h.err.thrown
               THEN Catch(f, h.err)
             ELSE IF h.resp # NoResponse /\ ~ev1.responded
               THEN [f EXCEPT !.pc = HsEntry(h.resp), !.response = h.resp,
                              !.hs = h.resp, !.site = "route"]
             ELSE [f EXCEPT !.response = h.resp,
                            !.pc = IF ScanBreaks(ev1.responded) THEN "after"
                                                                ELSE "scan"]]
  /\ UNCHANGED <<routes, statusRoutes, nextId, hooks, handling, fault, listener>>

\* statuses of the Response an onNotFound hook returns
NotFoundHookStatuses == {OK, NotFound}

\* #handleStatus, the await of the onNotFound hook resumes
HsNotFound(r, out, status) ==
  /\ frame[r].pc = "hs_hook"
  /\ out \in HookOutcomes
  /\ out = "respond" => ~requestEvent[r].responded
  /\ status \in (IF out = "response" THEN NotFoundHookStatuses ELSE {0})
  /\ LET f == frame[r]
         given == Resp(status, "hook", "onNotFound", 0)
     IN /\ requestEvent' = [requestEvent EXCEPT ![r] =
               IF out = "respond" THEN respond(@, OutOfBand("onNotFound", 0)) ELSE @]
        /\ trace' = [trace EXCEPT ![r] =
               Append(@, Ev("onNotFound", 0, out, f.hs,
                            IF out = "response" THEN given ELSE NoResponse))]
        /\ frame' = [frame EXCEPT ![r] =
             IF out = "throw"
               THEN IF f.site = "route"
                      THEN Catch(f, PlainErr)
                      ELSE [f EXCEPT !.pc = "rejected"]
             ELSE [f EXCEPT !.pc = "hs_chain",
                            !.hs = IF out = "response" THEN given ELSE @]]
  /\ UNCHANGED <<routes, statusRoutes, nextId, hooks, handling, fault, listener>>

\* the status routes that match `response`, in registration order
MatchingStatusRoutes(response) ==
  SelectSeq(statusRoutes, LAMBDA sr : StatusMatches(sr, response))

\* #handleStatus from its loop to its return, and the caller up to its next
\* await: every matching status handler is called with `response`, the
\* last one's result is awaited, and the caller responds with it
HsChain(r, outs) ==
  /\ frame[r].pc = "hs_chain"
  /\ LET f == frame[r]
         m == MatchingStatusRoutes(f.hs)
         oobs == {i \in 1..Len(m) : outs[i] = "respond"}
         res == HandleStatusLoop(m, outs, f.hs)
         ev1 == IF oobs = {} THEN requestEvent[r]
                ELSE respond(requestEvent[r],
                             OutOfBand("status", m[CHOOSE i \in oobs : TRUE].id))
         calls == [i \in 1..Len(m) |->
                     Ev("status", m[i].id, outs[i], f.hs,
                        IF outs[i] = "throw" THEN NoResponse
                        ELSE StatusHandle(m[i], outs[i], f.hs))]
         answer == Ev("respond", 0, IF ev1.responded THEN "fault" ELSE "ok",
                      NoResponse, res.resp)
     IN /\ outs \in [1..Len(m) -> StatusOutcomes]
        /\ Cardinality(oobs) <= 1
        /\ oobs # {} => ~requestEvent[r].responded
        /\ IF res.err.thrown
             THEN /\ requestEvent' = [requestEvent EXCEPT ![r] = ev1]
                  /\ trace' = [trace EXCEPT ![r] = @ \o calls]
                  /\ fault' = fault
                  /\ frame' = [frame EXCEPT ![r] =
                       IF f.site = "route"
                         THEN Catch(f, res.err)
                         ELSE [f EXCEPT !.pc = "rejected"]]
           ELSE IF f.site = "route"
             THEN \* `if (!requestEvent.responded) await requestEvent.respond()`
                  /\ requestEvent' = [requestEvent EXCEPT ![r] =
                       IF ev1.responded THEN ev1 ELSE respond(ev1, res.resp)]
                  /\ trace' = [trace EXCEPT ![r] =
                       IF ev1.responded THEN @ \o calls
                       ELSE (@ \o calls) \o <<answer>>]
                  /\ fault' = fault
                  /\ frame' = [frame EXCEPT ![r] =
                       [f EXCEPT !.response = res.resp,
                                 !.pc = IF ScanBreaks(TRUE) THEN "after" ELSE "scan"]]
           ELSE \* `requestEvent.respond(response)`, whatever `responded` is
                /\ requestEvent' = [requestEvent EXCEPT ![r] =
                     IF ev1.responded THEN ev1 ELSE respond(ev1, res.resp)]
                /\ trace' = [trace EXCEPT ![r] = (@ \o calls) \o <<answer>>]
                /\ fault' = [fault EXCEPT ![r] = @ \/ ev1.responded]
                /\ frame' = [frame EXCEPT ![r] =
                     [f EXCEPT !.response = res.resp,
                               !.pc = IF ev1.responded THEN "rejected"
                                                       ELSE "finish"]]
  /\ UNCHANGED <<routes, statusRoutes, nextId, hooks, handling, listener>>

\* #handle after the route loop: nothing responded, so the not found path
After(r) ==
  /\ frame[r].pc = "after"
  /\ LET f == frame[r]
         response == IF f.response # NoResponse THEN f.response
                                                ELSE NotFoundResponse
     IN frame' = [frame EXCEPT ![r] =
          IF ~requestEvent[r].responded
            THEN [f EXCEPT !.response = response, !.hs = response,
                           !.site = "notfound", !.pc = HsEntry(response)]
            ELSE [f EXCEPT !.pc = "finish"]]
  /\ UNCHANGED <<routes, statusRoutes, nextId, hooks, handling, requestEvent,
                 fault, trace, listener>>

\* `respondable: requestEvent && !requestEvent.responded` in #error
RespondableNow(ev) == ~ev.responded

\* statuses of the Response an onError hook returns
OnErrorStatuses == {503}

\* #error() called from the catch of the route loop, and the catch up to the
\* next iteration or the break
Error(r, out, status) ==
  /\ frame[r].pc = "error"
  /\ status \in (IF out = "response" THEN OnErrorStatuses ELSE {0})
  /\ out \in (IF "onError" \in hooks THEN HookOutcomes ELSE {"absent"})
  /\ out = "respond" => ~requestEvent[r].responded
  /\ LET f == frame[r]
         ev0 == requestEvent[r]
         evh == IF out = "respond" THEN respond(ev0, OutOfBand("onError", 0))
                                   ELSE ev0
         given == Resp(status, "hook", "onError", 0)
         answer == IF out = "response" THEN given ELSE ErrorResponse(f.cause)
         ev1 == IF out # "throw" /\ ~evh.responded THEN respond(evh, answer)
                                                   ELSE evh
         called == IF out = "absent" THEN <<>>
                   ELSE <<ErrEv(f.route, out,
                                IF out = "response" THEN given ELSE NoResponse,
                                RespondableNow(ev0))>>
         responds == IF out # "throw" /\ ~evh.responded
                       THEN <<Ev("respond", 0, "ok", NoResponse, answer)>>
                       ELSE <<>>
     IN /\ requestEvent' = [requestEvent EXCEPT ![r] = ev1]
        /\ trace' = [trace EXCEPT ![r] = (@ \o called) \o responds]
        /\ frame' = [frame EXCEPT ![r].pc =
             IF out = "throw" THEN "rejected"
             ELSE IF ScanBreaks(ev1.responded) THEN "after" ELSE "scan"]
  /\ UNCHANGED <<routes, statusRoutes, nextId, hooks, handling, fault, listener>>

\* the end of #handle: the onHandled hook when `response` is set
Finish(r, out) ==
  /\ frame[r].pc = "finish"
  /\ out \in (IF frame[r].response # NoResponse /\ "onHandled" \in hooks
                THEN {"none", "throw"} ELSE {"absent"})
  /\ frame' = [frame EXCEPT ![r].pc = IF out = "throw" THEN "rejected" ELSE "done"]
  /\ trace' = [trace EXCEPT ![r] =
       IF out = "absent" THEN @
       ELSE Append(@, Ev("onHandled", frame[r].route, out, NoResponse,
                         frame[r].response))]
  /\ UNCHANGED <<routes, statusRoutes, nextId, hooks, handling, requestEvent, fault, listener>>

\* the reaction registered on requestEvent.response in #handle: once the
\* promise is fulfilled its entry leaves #handling
HandlingDelete(r) ==
  /\ r \in handling
  /\ requestEvent[r].state = "resolved"
  /\ handling' = handling \ {r}
  /\ UNCHANGED <<routes, statusRoutes, nextId, hooks, requestEvent, frame, fault,
                 trace, listener>>

\* no request has been handed to #handle yet
Starting == \A r \in Requests : frame[r].pc = "idle"

Next ==
  \/ \E ri \in RouteInputs : Starting /\ AddRoute(ri.path, ri.methods)
  \/ \E st \in StatusFilters : Starting /\ AddStatusRoute(st)
  \/ \E r \in Sequential, m \in Methods, p \in Pathnames,
        out \in {"absent", "none", "respond", "throw"} : HandleStart(r, m, p, out)
  \/ \E r \in Sequential : ScanNext(r)
  \/ \E r \in Sequential, res \in HandlerResults, oob \in BOOLEAN :
        HandlerDone(r, res, oob)
  \/ \E r \in Sequential, out \in HookOutcomes, s \in NotFoundHookStatuses \cup {0} :
        HsNotFound(r, out, s)
  \/ \E r \in Sequential, n \in 0..MaxStatusRoutes :
        \E outs \in [1..n -> StatusOutcomes] : HsChain(r, outs)
  \/ \E r \in Sequential : After(r)
  \/ \E r \in Sequential, out \in HookOutcomes \cup {"absent"},
        s \in OnErrorStatuses \cup {0} : Error(r, out, s)
  \/ \E r \in Sequential, out \in {"absent", "none", "throw"} : Finish(r, out)
  \/ \E r \in Sequential : HandlingDelete(r)

Spec == Init /\ [][Next]_vars

\* ------------------------------------------- StatusRoute.matches, alone
\* the StatusRange tags
StatusRanges ==
  {"*", "info", "success", "redirect", "client-error", "server-error", "error"}

\* the entries a status filter is built from: exact codes and every range
FilterItems == {Code(204), Code(404)} \cup {Range(t) : t \in StatusRanges}

\* the status filters on() is called with: arrays of up to MaxFilterLen entries
Filters == UNION {[1..n -> FilterItems] : n \in 0..MaxFilterLen}

\* the statuses of the responses matches() is called with: both ends of
\* every range, and the exact codes
ResponseStatuses == {100, 199, 200, 204, 299, 300, 399, 400, 404, 499, 500, 599}

\* a Router with one status route, registered with on(filter, handler)
InitMatches ==
  /\ routes = <<>>
  /\ \E f \in Filters : statusRoutes = <<[id |-> 1, status |-> f]>>
  /\ nextId = [route |-> 1, status |-> 2]
  /\ hooks = {}
  /\ handling = {}
  /\ requestEvent = [r \in Requests |-> NewEvent("GET", <<"a">>)]
  /\ frame = [r \in Requests |-> IdleFrame]
  /\ fault = [r \in Requests |-> FALSE]
  /\ trace = [r \in Requests |-> <<>>]
  /\ listener = NotListening

\* StatusRoute.matches(response) on the status route at position i, for a
\* response of request r with the given status
MatchesCall(r, i, status) ==
  /\ i \in 1..Len(statusRoutes)
  /\ trace[r] = <<>>
  /\ LET response == Resp(status, "handler", "route", 0)
         result == IF StatusMatches(statusRoutes[i], response) THEN "true"
                                                               ELSE "false"
     IN trace' = [trace EXCEPT ![r] =
          <<Ev("matches", statusRoutes[i].id, result, response, NoResponse)>>]
  /\ UNCHANGED <<routes, statusRoutes, nextId, hooks, handling, requestEvent,
                 frame, fault, listener>>

NextMatches ==
  \E r \in Sequential, s \in ResponseStatuses : MatchesCall(r, 1, s)

SpecMatches == InitMatches /\ [][NextMatches]_vars

\* ------------------------------------------------- RequestEvent, alone
\* the responses respond() is called with
EventResponses == {Resp(OK, "handler", "caller", 0),
                   Resp(NotFound, "handler", "caller", 0)}

\* requestEvent.respond(response), called by anything holding the event
RespondCall(r, response) ==
  /\ Len(trace[r]) < MaxCalls
  /\ IF AlreadyResponded(requestEvent[r])
       THEN /\ requestEvent' = requestEvent
            /\ trace' = [trace EXCEPT ![r] =
                 Append(@, Ev("respond", 0, "fault", NoResponse, response))]
       ELSE /\ requestEvent' = [requestEvent EXCEPT ![r] = respond(@, response)]
            /\ trace' = [trace EXCEPT ![r] =
                 Append(@, Ev("respond", 0, "ok", NoResponse, response))]
  /\ UNCHANGED <<routes, statusRoutes, nextId, hooks, handling, frame, fault, listener>>

\* requestEvent.error(reason), called by anything holding the event
ErrorCall(r) ==
  /\ Len(trace[r]) < MaxCalls
  /\ IF AlreadyResponded(requestEvent[r])
       THEN /\ requestEvent' = requestEvent
            /\ trace' = [trace EXCEPT ![r] =
                 Append(@, Ev("error", 0, "fault", NoResponse, NoResponse))]
       ELSE /\ requestEvent' = [requestEvent EXCEPT ![r] = error(@)]
            /\ trace' = [trace EXCEPT ![r] =
                 Append(@, Ev("error", 0, "ok", NoResponse, NoResponse))]
  /\ UNCHANGED <<routes, statusRoutes, nextId, hooks, handling, frame, fault, listener>>

NextEvent ==
  \/ \E r \in Requests, response \in EventResponses : RespondCall(r, response)
  \/ \E r \in Requests : ErrorCall(r)

SpecEvent == Init /\ [][NextEvent]_vars

\* --------------------------------------------------------- Router.listen
\* listen() is in its `for await` loop over the server's request events
Listening == [NotListening EXCEPT !.pc = "loop", !.transport = "open"]

\* the methods of the requests the server receives
ListenMethods == {"GET"}

\* what the route handler does while listen() is serving: it returns a value
\* that serialises to a JSON response, or throws
ListenResults ==
  {res \in HandlerResults :
     res.kind = "value" \/ (res.kind = "throw" /\ ~res.err.http)}

\* a Router with route({ method: ["GET", "POST"], path: "/:id", ... }),
\* constructed with no hooks or with all four, whose listen() is serving
InitListen ==
  /\ routes = <<[id |-> 1, path |-> <<Par("id")>>, methods |-> {"GET", "POST"},
                 hasParams |-> FALSE, params |-> {}, via |-> "route", schema |-> "none"]>>
  /\ statusRoutes = <<>>
  /\ nextId = [route |-> 2, status |-> 1]
  /\ hooks \in HookSets
  /\ handling = {}
  /\ requestEvent = [r \in Requests |-> NewEvent("GET", <<"a">>)]
  /\ frame = [r \in Requests |-> IdleFrame]
  /\ fault = [r \in Requests |-> FALSE]
  /\ trace = [r \in Requests |-> <<>>]
  /\ listener = Listening

\* Promise.all over the response promises of `rs`
PromiseAllAtOnce(rs) == "fulfilled"

PromiseAll(rs) ==
  IF \E r \in rs : requestEvent[r].state = "rejected" THEN "rejected"
  ELSE IF \A r \in rs : requestEvent[r].state = "resolved" THEN "fulfilled"
  ELSE "pending"

\* the abort listener's await has settled and its continuation is queued
DrainReady ==
  listener.drain = "awaiting" /\ PromiseAll(listener.snapshot) # "pending"

\* the `for await` loop takes the next request event the server enqueued
\* and calls #handle with it, unawaited; a queued continuation of the abort
\* listener runs before the next request event arrives
AcceptAwaited(r, method, pathname, out) ==
  /\ listener.pc = "loop"
  /\ listener.transport = "open"
  /\ ~DrainReady
  /\ \A q \in Requests \ {r} : frame[q].pc \in {"idle", "done", "rejected"}
  /\ HandleStart(r, method, pathname, out)

Accept(r, method, pathname, out) ==
  /\ listener.pc = "loop"
  /\ listener.transport = "open"
  /\ ~DrainReady
  /\ HandleStart(r, method, pathname, out)

\* the signal given to listen() fires: its abort listener runs up to
\* `await Promise.all(this.#handling)`, which takes the promises in the set
\* at that time (snapshot; waiting: those of them still pending)
Signal ==
  /\ listener.pc = "loop"
  /\ ~listener.signalled
  /\ listener' = [listener EXCEPT
       !.signalled = TRUE, !.drain = "awaiting", !.snapshot = handling,
       !.waiting = {r \in handling : requestEvent[r].state = "pending"}]
  /\ UNCHANGED <<routes, statusRoutes, nextId, hooks, handling, requestEvent,
                 frame, fault, trace>>

\* the abort listener resumes from its await: this.#handling.clear() and
\* this.#abortController.abort(), on which the server stops accepting and
\* shuts down; a rejection ends the listener there
Drained ==
  /\ DrainReady
  /\ IF PromiseAll(listener.snapshot) = "fulfilled"
       THEN /\ handling' = {}
            /\ listener' = [listener EXCEPT !.drain = "done", !.aborted = TRUE,
                                            !.transport = "shutdown"]
       ELSE /\ handling' = handling
            /\ listener' = [listener EXCEPT !.drain = "failed"]
  /\ UNCHANGED <<routes, statusRoutes, nextId, hooks, requestEvent, frame,
                 fault, trace>>

\* the server's abort listener, after `await this.#server.shutdown()`:
\* this.#controller.close() ends the stream of request events
ServerClose ==
  /\ listener.transport = "shutdown"
  /\ listener' = [listener EXCEPT !.transport = "closed"]
  /\ UNCHANGED <<routes, statusRoutes, nextId, hooks, handling, requestEvent,
                 frame, fault, trace>>

\* the `for await` loop ends; listen() awaits Promise.all(this.#handling)
LoopEnd ==
  /\ listener.pc = "loop"
  /\ listener.transport = "closed"
  /\ listener' = [listener EXCEPT !.pc = "final", !.awaited = handling]
  /\ UNCHANGED <<routes, statusRoutes, nextId, hooks, handling, requestEvent,
                 frame, fault, trace>>

\* the final await settles (a rejection is caught) and listen() returns
ListenReturn ==
  /\ listener.pc = "final"
  /\ PromiseAll(listener.awaited) # "pending"
  /\ listener' = [listener EXCEPT !.pc = "returned"]
  /\ UNCHANGED <<routes, statusRoutes, nextId, hooks, handling, requestEvent,
                 frame, fault, trace>>

\* the steps of requests being handled and of listen() itself: everything
\* but the arrival of a request and the firing of the signal
ListenProgress ==
  \/ \E r \in Requests : ScanNext(r)
  \/ \E r \in Requests, res \in ListenResults : HandlerDone(r, res, FALSE)
  \/ \E r \in Requests : HsChain(r, <<>>)
  \/ \E r \in Requests : After(r)
  \/ \E r \in Requests, out \in HookOutcomes \cup {"absent"},
        s \in OnErrorStatuses \cup {0} : Error(r, out, s)
  \/ \E r \in Requests, out \in {"absent", "none", "throw"} : Finish(r, out)
  \/ \E r \in Requests : HandlingDelete(r)
  \/ Drained
  \/ ServerClose
  \/ LoopEnd
  \/ ListenReturn

NextListen ==
  \/ \E r \in Requests, m \in ListenMethods, p \in Pathnames,
        out \in {"absent", "none", "respond", "throw"} : Accept(r, m, p, out)
  \/ Signal
  \/ ListenProgress

\* every handler and hook that was called completes, and the microtasks and
\* the server's shutdown run
SpecListen == InitListen /\ [][NextListen]_vars /\ WF_vars(ListenProgress)

\* ------------------------------------- the method-named registration calls
\* the methods of the requests a server hands to the Router
HttpMethods == {"GET", "HEAD", "OPTIONS", "POST", "PUT", "PATCH", "DELETE"}

\* Router.get(), head(), options(), post(), put(), patch(), delete()
VerbNames == {"get", "head", "options", "post", "put", "patch", "delete"}

\* the methods each of them passes to #addRoute
RegisteredMethods(name) ==
  CASE name = "get" -> {"GET"}
    [] name = "head" -> {"HEAD"}
    [] name = "options" -> {"PATCH"}
    [] name = "post" -> {"POST"}
    [] name = "put" -> {"PUT"}
    [] name = "patch" -> {"PATCH"}
    [] name = "delete" -> {"PATCH"}

\* Router.get(path, handler) and its siblings: #addRoute with their methods
AddVerbRoute(name, path) ==
  /\ Len(routes) < MaxRoutes
  /\ routes' = Append(routes, [id |-> nextId.route, path |-> path,
                               methods |-> RegisteredMethods(name),
                               hasParams |-> FALSE, params |-> {}, via |-> name,
                               schema |-> "none"])
  /\ nextId' = [nextId EXCEPT !.route = @ + 1]
  /\ UNCHANGED <<statusRoutes, hooks, handling, requestEvent, frame, fault, trace, listener>>

\* routes are registered for "/a" by name, then one request of any method is
\* handled
NextVerbs ==
  \/ \E name \in VerbNames : Starting /\ AddVerbRoute(name, <<Lit("a")>>)
  \/ \E r \in Sequential, m \in HttpMethods, p \in Pathnames,
        out \in {"absent", "none"} : HandleStart(r, m, p, out)
  \/ \E r \in Sequential : ScanNext(r)
  \/ \E r \in Sequential, res \in ListenResults : HandlerDone(r, res, FALSE)
  \/ \E r \in Sequential : HsNotFound(r, "none", 0)
  \/ \E r \in Sequential : HsChain(r, <<>>)
  \/ \E r \in Sequential : After(r)
  \/ \E r \in Sequential, out \in {"absent", "none"} : Error(r, out, 0)
  \/ \E r \in Sequential, out \in {"absent", "none"} : Finish(r, out)
  \/ \E r \in Sequential : HandlingDelete(r)

SpecVerbs == Init /\ [][NextVerbs]_vars

\* ------------------------------------------------- body schema validation
BODYLESS_METHODS == {"GET", "HEAD"}

\* the body a request carries, against `object({ c: string() })`: JSON that
\* matches, JSON that does not, or text that is not JSON
Bodies == {"valid", "invalid", "malformed"}

\* what a route is given as its schema: none, a body schema, or a body
\* schema with an invalid handler
Schemas == {"none", "body", "bodyWithInvalidHandler"}

\* what an invalid handler does: it returns a Response or throws
InvalidHandlerOutcomes == {"response", "throw"}

\* Schema.validateBody() on a request of `method` carrying `body`: an output,
\* an invalid response, or a thrown error
validateBody(method, schema, body, ih) ==
  IF method \in BODYLESS_METHODS THEN [kind |-> "output", err |-> NoErr]
  ELSE IF body = "malformed" THEN [kind |-> "throw", err |-> PlainErr]
  ELSE IF schema = "none" THEN [kind |-> "output", err |-> NoErr]
  ELSE IF schema = "bodyWithInvalidHandler"
    THEN IF body = "valid" THEN [kind |-> "output", err |-> NoErr]
         ELSE IF ih = "response" THEN [kind |-> "invalidResponse", err |-> NoErr]
         ELSE [kind |-> "throw", err |-> HttpErr(InternalServerError)]
  ELSE IF body = "valid" THEN [kind |-> "output", err |-> NoErr]
  ELSE [kind |-> "throw", err |-> HttpErr(BadRequest)]

\* a Router with route({ method: "POST", path: "/a", schema, handler })
InitBody ==
  /\ \E sc \in Schemas :
       routes = <<[id |-> 1, path |-> <<Lit("a")>>, methods |-> {"POST"},
                   hasParams |-> FALSE, params |-> {}, via |-> "route",
                   schema |-> sc]>>
  /\ statusRoutes = <<>>
  /\ nextId = [route |-> 2, status |-> 1]
  /\ hooks \in HookSets
  /\ handling = {}
  /\ requestEvent = [r \in Requests |-> NewEvent("GET", <<"a">>)]
  /\ frame = [r \in Requests |-> IdleFrame]
  /\ fault = [r \in Requests |-> FALSE]
  /\ trace = [r \in Requests |-> <<>>]
  /\ listener = NotListening

\* the event of a request that carries a body
NewEventWithBody(method, pathname, body) ==
  [NewEvent(method, pathname) EXCEPT !.body = body]

\* Context.body(), called by the running handler: the first call validates
\* the body; an invalid response is sent to the client by body() itself
ReadBody(r, ih) ==
  /\ frame[r].pc = "handling"
  /\ frame[r].read = Unread
  /\ ~requestEvent[r].responded
  /\ LET ev == requestEvent[r]
         rt == CHOOSE x \in {routes[i] : i \in 1..Len(routes)} : x.id = frame[r].route
         v == validateBody(ev.method, rt.schema, ev.body, ih)
         sent == OutOfBand("handler", rt.id)
     IN /\ frame' = [frame EXCEPT ![r].read = v]
        /\ requestEvent' = [requestEvent EXCEPT ![r] =
             IF v.kind = "invalidResponse" THEN respond(@, sent) ELSE @]
        /\ trace' = [trace EXCEPT ![r] =
             Append(@, Ev("body", rt.id,
                          IF v.kind = "invalidResponse" THEN "respond" ELSE v.kind,
                          NoResponse,
                          IF v.kind = "invalidResponse" THEN sent ELSE NoResponse))]
  /\ UNCHANGED <<routes, statusRoutes, nextId, hooks, handling, fault, listener>>

\* what a handler that does not catch does next: the error body() threw
\* goes through it, otherwise it returns a value
HandlerResultAfter(read) ==
  IF read.kind = "throw" THEN [kind |-> "throw", status |-> 0, err |-> read.err]
  ELSE [kind |-> "value", status |-> 0, err |-> NoErr]

\* one request is handled by a handler that may read the body
NextBody ==
  \/ \E r \in Sequential, m \in {"GET", "POST"}, b \in Bodies,
        out \in {"absent", "none"} :
        Handle(r, NewEventWithBody(m, <<"a">>, b), out)
  \/ \E r \in Sequential : ScanNext(r)
  \/ \E r \in Sequential, ih \in InvalidHandlerOutcomes : ReadBody(r, ih)
  \/ \E r \in Sequential : HandlerDone(r, HandlerResultAfter(frame[r].read), FALSE)
  \/ \E r \in Sequential : HsNotFound(r, "none", 0)
  \/ \E r \in Sequential : HsChain(r, <<>>)
  \/ \E r \in Sequential : After(r)
  \/ \E r \in Sequential, out \in {"absent", "none", "response"},
        s \in OnErrorStatuses \cup {0} : Error(r, out, s)
  \/ \E r \in Sequential, out \in {"absent", "none"} : Finish(r, out)
  \/ \E r \in Sequential : HandlingDelete(r)

SpecBody == InitBody /\ [][NextBody]_vars

\* ------------------------------------------- a rejected response promise
\* requestEvent.error(reason) is called on an event that has not responded,
\* by a hook, which is the user code that is handed the event: the running
\* onNotFound or onError hook, or an async onRequest hook while #handle is
\* suspended at one of its awaits or has returned.  The response promise
\* is rejected.
EventError(r) ==
  /\ \/ frame[r].pc = "hs_hook"
     \/ frame[r].pc = "error" /\ "onError" \in hooks
     \/ /\ frame[r].hook = "pending"
        /\ frame[r].pc \in {"handling", "hs_hook", "hs_chain", "error", "done",
                            "rejected"}
  /\ ~AlreadyResponded(requestEvent[r])
  /\ requestEvent' = [requestEvent EXCEPT ![r] = error(@)]
  /\ trace' = [trace EXCEPT ![r] =
                 Append(@, Ev("oob", 0, "error", NoResponse, NoResponse))]
  /\ UNCHANGED <<routes, statusRoutes, nextId, hooks, handling, frame, fault, listener>>

\* the `.catch()` reaction registered on requestEvent.response in #handle:
\* #error("Error deleting handling handle.", cause, requestEvent), which
\* calls the onError hook and responds only if the event has not responded
HandlingCatch(r, out) ==
  /\ requestEvent[r].state = "rejected"
  /\ ~frame[r].caught
  /\ out \in (IF "onError" \in hooks THEN {"none", "response", "throw"}
                                     ELSE {"absent"})
  /\ LET ev == requestEvent[r]
         given == Resp(CHOOSE st \in OnErrorStatuses : TRUE, "hook", "onError", 0)
         answer == IF out = "response" THEN given ELSE ErrorResponse(PlainErr)
         called == IF out = "absent" THEN <<>>
                   ELSE <<ErrEv(0, out,
                                IF out = "response" THEN given ELSE NoResponse,
                                RespondableNow(ev))>>
         responds == IF out # "throw" /\ ~ev.responded
                       THEN <<Ev("respond", 0, "ok", NoResponse, answer)>>
                       ELSE <<>>
     IN /\ requestEvent' = [requestEvent EXCEPT ![r] =
             IF out # "throw" /\ ~ev.responded THEN respond(@, answer) ELSE @]
        /\ trace' = [trace EXCEPT ![r] = (@ \o called) \o responds]
        /\ frame' = [frame EXCEPT ![r].caught = TRUE]
  /\ UNCHANGED <<routes, statusRoutes, nextId, hooks, handling, fault, listener>>

\* a Router with route({ method: "GET", path: "/a", ... }), constructed with
\* no hooks or with all four
InitFault ==
  /\ routes = <<[id |-> 1, path |-> <<Lit("a")>>, methods |-> {"GET"},
                 hasParams |-> FALSE, params |-> {}, via |-> "route",
                 schema |-> "none"]>>
  /\ statusRoutes = <<>>
  /\ nextId = [route |-> 2, status |-> 1]
  /\ hooks \in HookSets
  /\ handling = {}
  /\ requestEvent = [r \in Requests |-> NewEvent("GET", <<"a">>)]
  /\ frame = [r \in Requests |-> IdleFrame]
  /\ fault = [r \in Requests |-> FALSE]
  /\ trace = [r \in Requests |-> <<>>]
  /\ listener = NotListening

\* one request is handled while its response promise may be rejected
NextFault ==
  \/ \E r \in Sequential, p \in Pathnames, out \in {"absent", "none", "later"} :
        HandleStart(r, "GET", p, out)
  \/ \E r \in Sequential : EventError(r)
  \/ \E r \in Sequential, out \in {"absent", "none", "response", "throw"} :
        HandlingCatch(r, out)
  \/ \E r \in Sequential : ScanNext(r)
  \/ \E r \in Sequential, res \in HandlerResults : HandlerDone(r, res, FALSE)
  \/ \E r \in Sequential, out \in {"none", "response", "throw"},
        s \in NotFoundHookStatuses \cup {0} : HsNotFound(r, out, s)
  \/ \E r \in Sequential : HsChain(r, <<>>)
  \/ \E r \in Sequential : After(r)
  \/ \E r \in Sequential, out \in {"absent", "none", "response", "throw"},
        s \in OnErrorStatuses \cup {0} : Error(r, out, s)
  \/ \E r \in Sequential, out \in {"absent", "none", "throw"} : Finish(r, out)
  \/ \E r \in Sequential : HandlingDelete(r)

SpecFault == InitFault /\ [][NextFault]_vars

\* -------------------------------------------------- the responseHeaders bag
\* the header a route handler sets on ctx.responseHeaders while it runs
HandlerHeaders == {"set-cookie"}

\* the headers on the Response PathRoute.handle() returns for a handler
\* result of kind `body`, by the branch that built it: appendHeaders(result,
\* responseHeaders), Response.json(output, { headers: responseHeaders }),
\* maybeValid.invalidResponse, new Response(null, { status, statusText })
RouteHeaders(body, bag) ==
  CASE body = "handler" -> bag
    [] body = "json" -> {"content-type"} \cup bag
    [] body = "invalid" -> {"content-type"}
    [] OTHER -> {}

\* the headers on `response` as the Router delivers it: a Response built by
\* a status handler went through appendHeaders(result, responseHeaders)
DeliveredHeaders(response, bag) ==
  IF response.trail # <<>> THEN bag ELSE RouteHeaders(response.body, bag)

\* ------------------------------------------------- Removable.remove()
\* no #handle call is in the middle of a run-to-completion segment: code
\* that calls remove() runs between two of them
AtAwait(r) ==
  frame[r].pc \in {"idle", "handling", "hs_hook", "hs_chain", "error", "done",
                   "rejected"}

\* the history of every request in flight or handled gets a record of the
\* removal
Removed(r, kind, id) ==
  IF frame[r].pc = "idle" THEN trace[r]
  ELSE Append(trace[r], Ev("remove", id, kind, NoResponse, NoResponse))

Removal(kind, id) ==
  [trace EXCEPT ![1] = Removed(1, kind, id), ![2] = Removed(2, kind, id)]

\* remove() of the handle route() returned: this.#routes.delete(route)
RemoveRouteCancels(id) ==
  /\ \E i \in 1..Len(routes) : routes[i].id = id
  /\ \A r \in Requests : AtAwait(r)
  /\ routes' = SelectSeq(routes, LAMBDA rt : rt.id # id)
  /\ trace' = Removal("route", id)
  /\ frame' = [frame EXCEPT
                 ![1].pc = IF @ = "handling" /\ frame[1].route = id THEN "scan" ELSE @,
                 ![2].pc = IF @ = "handling" /\ frame[2].route = id THEN "scan" ELSE @]
  /\ UNCHANGED <<statusRoutes, nextId, hooks, handling, requestEvent, fault,
                 listener>>

RemoveRoute(id) ==
  /\ \E i \in 1..Len(routes) : routes[i].id = id
  /\ \A r \in Requests : AtAwait(r)
  /\ routes' = SelectSeq(routes, LAMBDA rt : rt.id # id)
  /\ trace' = Removal("route", id)
  /\ UNCHANGED <<statusRoutes, nextId, hooks, handling, requestEvent, frame,
                 fault, listener>>

\* remove() of the handle on() returned: this.#statusRoutes.delete(route)
RemoveStatusRouteKeepsFirst(id) ==
  /\ \E i \in 1..Len(statusRoutes) : statusRoutes[i].id = id
  /\ \A r \in Requests : AtAwait(r)
  /\ statusRoutes' = SelectSeq(statusRoutes, LAMBDA sr : sr.id < id)
  /\ trace' = Removal("status", id)
  /\ UNCHANGED <<routes, nextId, hooks, handling, requestEvent, frame, fault,
                 listener>>

RemoveStatusRoute(id) ==
  /\ \E i \in 1..Len(statusRoutes) : statusRoutes[i].id = id
  /\ \A r \in Requests : AtAwait(r)
  /\ statusRoutes' = SelectSeq(statusRoutes, LAMBDA sr : sr.id # id)
  /\ trace' = Removal("status", id)
  /\ UNCHANGED <<routes, nextId, hooks, handling, requestEvent, frame, fault,
                 listener>>

\* the registrations made before requests arrive: get("/a", ...),
\* get("/:id", ...), on("client-error", ...), on([404, "server-error"], ...)
RegisteredRoutes ==
  <<[id |-> 1, path |-> <<Lit("a")>>, methods |-> {"GET"}, hasParams |-> FALSE,
     params |-> {}, via |-> "get", schema |-> "none"],
    [id |-> 2, path |-> <<Par("id")>>, methods |-> {"GET"}, hasParams |-> FALSE,
     params |-> {}, via |-> "get", schema |-> "none"]>>

RegisteredStatusRoutes ==
  <<[id |-> 1, status |-> <<Range("client-error")>>],
    [id |-> 2, status |-> <<Code(404), Range("server-error")>>]>>

\* a Router without hooks after those registrations
InitRemove ==
  /\ routes = RegisteredRoutes
  /\ statusRoutes = RegisteredStatusRoutes
  /\ nextId = [route |-> 3, status |-> 3]
  /\ hooks = {}
  /\ handling = {}
  /\ requestEvent = [r \in Requests |-> NewEvent("GET", <<"a">>)]
  /\ frame = [r \in Requests |-> IdleFrame]
  /\ fault = [r \in Requests |-> FALSE]
  /\ trace = [r \in Requests |-> <<>>]
  /\ listener = NotListening

\* what the route handlers do while registrations are removed: return a
\* value, return a 404 Response, or throw
RemoveResults ==
  {res \in HandlerResults :
     \/ res.kind = "value"
     \/ res.kind = "response" /\ res.status = NotFound
     \/ res.kind = "throw" /\ ~res.err.http}

\* a request is handled; registrations are removed before, while and after
NextRemove ==
  \/ \E id \in 1..MaxRoutes : RemoveRoute(id)
  \/ \E id \in 1..MaxStatusRoutes : RemoveStatusRoute(id)
  \/ \E r \in Sequential, p \in Pathnames : HandleStart(r, "GET", p, "absent")
  \/ \E r \in Sequential : ScanNext(r)
  \/ \E r \in Sequential, res \in RemoveResults : HandlerDone(r, res, FALSE)
  \/ \E r \in Sequential, n \in 0..MaxStatusRoutes :
        \E outs \in [1..n -> {"rewrite", "undefined"}] : HsChain(r, outs)
  \/ \E r \in Sequential : After(r)
  \/ \E r \in Sequential : Error(r, "absent", 0)
  \/ \E r \in Sequential : Finish(r, "absent")
  \/ \E r \in Sequential : HandlingDelete(r)

SpecRemove == InitRemove /\ [][NextRemove]_vars

\* ------------------------------------------------ an async onRequest hook
\* a Router constructed with all four hooks, with
\* route({ method: "GET", path: "/a", ... }) and
\* on([404, "server-error"], ...)
InitHook ==
  /\ routes = <<[id |-> 1, path |-> <<Lit("a")>>, methods |-> {"GET"},
                 hasParams |-> FALSE, params |-> {}, via |-> "route", schema |-> "none"]>>
  /\ statusRoutes = <<[id |-> 1, status |-> <<Code(404), Range("server-error")>>]>>
  /\ nextId = [route |-> 2, status |-> 2]
  /\ hooks = AllHooks
  /\ handling = {}
  /\ requestEvent = [r \in Requests |-> NewEvent("GET", <<"a">>)]
  /\ frame = [r \in Requests |-> IdleFrame]
  /\ fault = [r \in Requests |-> FALSE]
  /\ trace = [r \in Requests |-> <<>>]
  /\ listener = NotListening

\* one request is handled; the onRequest hook may be an async function that
\* responds after #handle has gone on
NextHook ==
  \/ \E r \in Sequential, m \in Methods, p \in Pathnames,
        out \in {"none", "respond", "throw", "later"} : HandleStart(r, m, p, out)
  \/ \E r \in Sequential : OnRequestResponds(r)
  \/ \E r \in Sequential : ScanNext(r)
  \/ \E r \in Sequential, res \in HandlerResults, oob \in BOOLEAN :
        HandlerDone(r, res, oob)
  \/ \E r \in Sequential, out \in HookOutcomes, s \in NotFoundHookStatuses \cup {0} :
        HsNotFound(r, out, s)
  \/ \E r \in Sequential, n \in 0..MaxStatusRoutes :
        \E outs \in [1..n -> StatusOutcomes] : HsChain(r, outs)
  \/ \E r \in Sequential : After(r)
  \/ \E r \in Sequential, out \in HookOutcomes, s \in OnErrorStatuses \cup {0} :
        Error(r, out, s)
  \/ \E r \in Sequential, out \in {"absent", "none", "throw"} : Finish(r, out)
  \/ \E r \in Sequential : HandlingDelete(r)

SpecHook == InitHook /\ [][NextHook]_vars

\* ------------------------------------------------------------ properties
\* the calls of kind `e` recorded for request r, in order
Calls(r, e) == SelectSeq(trace[r], LAMBDA x : x.ev = e)

\* the route handler calls of request r
HandlerCalls(r) == Calls(r, "handler")

\* the status handler calls of request r
StatusCalls(r) == Calls(r, "status")

\* the positions of the routes that match request r
MatchingRoutes(r) ==
  {i \in 1..Len(routes) :
     IsMatch(matches(routes[i], requestEvent[r].method, requestEvent[r].pathname))}

Dispatched(r) == frame[r].pc # "idle"
Returned(r) == frame[r].pc \in {"done", "rejected"}
Resolved(r) == requestEvent[r].state = "resolved"

\* no hook and no status handler threw, responded to the event itself or
\* supplied a response of its own, and no route handler responded itself
Undisturbed(r) ==
  \A k \in 1..Len(trace[r]) :
    trace[r][k].ev # "handler" =>
      trace[r][k].out \notin {"respond", "throw", "response", "fault"}

\* no status handler replaced the response
NotRewritten(r) ==
  \A k \in 1..Len(trace[r]) : trace[r][k].out # "rewrite"

\* C1: the Router's own dispatch never calls respond() or error() on a
\* RequestEvent that has already responded, whatever handlers and hooks do.
C1_RouterNeverRespondsTwice == \A r \in Requests : ~fault[r]

\* C2: every RequestEvent handed to #handle is settled once #handle has
\* returned, given that every handler and hook returned or threw.
C2_SettledWhenHandleReturns ==
  \A r \in Requests : Returned(r) => requestEvent[r].state # "pending"

\* C3: once the handler of a route produced a response, no later route's
\* handler is invoked for the request, and the response the Router delivers
\* is that route's response.
C3_FirstResponseWins ==
  \A r \in Requests :
    LET hc == HandlerCalls(r)
    IN \A i \in 1..Len(hc) :
         hc[i].res # NoResponse =>
           /\ Len(hc) = i
           /\ (Resolved(r) /\ Undisturbed(r) /\ NotRewritten(r)
                 => requestEvent[r].value = hc[i].res)

\* two routes match, the first one's handler returned a Response, and the
\* client has it
C3_Witness ==
  \E r \in Requests :
    /\ Cardinality(MatchingRoutes(r)) = 2
    /\ frame[r].pc = "done"
    /\ Len(HandlerCalls(r)) = 1
    /\ HandlerCalls(r)[1].out = "response"
    /\ HandlerCalls(r)[1].id = routes[1].id
    /\ requestEvent[r].value = HandlerCalls(r)[1].res

\* a matching route registered after the one called first
LaterMatch(r) ==
  \E i \in MatchingRoutes(r) :
    Len(HandlerCalls(r)) >= 1 /\ routes[i].id > HandlerCalls(r)[1].id

C7_NoMatchIsNotFound ==
  \A r \in Requests :
    (/\ Dispatched(r)
     /\ MatchingRoutes(r) = {}
     /\ Resolved(r)
     /\ Undisturbed(r)
     /\ NotRewritten(r))
      => /\ requestEvent[r].value.status = NotFound
         /\ requestEvent[r].value = NotFoundResponse

\* routes are registered, none matches, and the client has the 404
C7_Witness ==
  \E r \in Requests :
    /\ Len(routes) >= 1
    /\ MatchingRoutes(r) = {}
    /\ frame[r].pc = "done"
    /\ requestEvent[r].value.status = NotFound

\* C8: when a route handler throws and no onError hook supplies a response,
\* the client receives the default error response: status 500, or the
\* thrown error's own status if it carries one.
C8_DefaultErrorStatus ==
  \A r \in Requests :
    LET hc == HandlerCalls(r)
    IN (/\ Len(hc) >= 1
        /\ hc[Len(hc)].out = "throw"
        /\ Resolved(r)
        /\ Undisturbed(r))
         => /\ requestEvent[r].value.by = <<"error", 0>>
            /\ requestEvent[r].value.status =
                 IF frame[r].cause.http THEN frame[r].cause.status
                                        ELSE InternalServerError

\* the handler threw an HTTP error with a status of its own, and the client
\* has a response with that status
C8_Witness ==
  \E r \in Requests :
    /\ Len(HandlerCalls(r)) = 1
    /\ HandlerCalls(r)[1].out = "throw"
    /\ frame[r].cause.http
    /\ Resolved(r)
    /\ requestEvent[r].value.status = frame[r].cause.status
    /\ requestEvent[r].value.status # InternalServerError

\* C9: each status handler receives the response produced by the status
\* route before it, so the client observes the later transform applied on
\* top of the earlier one's output.
C9_StatusHandlersChained ==
  \A r \in Requests :
    LET sc == StatusCalls(r)
    IN \A k \in 1..Len(sc) :
         (k > 1 /\ sc[k - 1].out = "rewrite") => sc[k].inp = sc[k - 1].res

\* C10: if two status routes both match and both return a new response, the
\* response delivered is the one the later registered of them returned.
C10_LaterStatusRouteWins ==
  \A r \in Requests :
    LET sc == StatusCalls(r)
        n == Len(sc)
    IN (/\ n >= 2
        /\ sc[n].out = "rewrite"
        /\ \E k \in 1..(n - 1) : sc[k].out = "rewrite"
        /\ Resolved(r)
        /\ \A k \in 1..Len(trace[r]) :
             trace[r][k].out \notin {"respond", "throw", "fault"})
         => /\ requestEvent[r].value = sc[n].res
            /\ \A k \in 1..(n - 1) : requestEvent[r].value # sc[k].res

\* two status routes matched, both returned a new response, and the client
\* has the second one's
C10_Witness ==
  \E r \in Requests :
    /\ Len(StatusCalls(r)) = 2
    /\ StatusCalls(r)[1].out = "rewrite"
    /\ StatusCalls(r)[2].out = "rewrite"
    /\ StatusCalls(r)[1].id < StatusCalls(r)[2].id
    /\ Resolved(r)
    /\ requestEvent[r].value = StatusCalls(r)[2].res

\* the response before any status handler rewrote it
Base(response) == [response EXCEPT !.trail = <<>>]

\* the status handler calls of request r that were handed `response`
StatusCallsWith(r, response) ==
  SelectSeq(trace[r], LAMBDA x : x.ev = "status" /\ x.inp = response)

\* the entries of trace[r] just before position k are the calls of every
\* status route matching `response`, each handed `response`, in order
StatusPassBefore(r, k, response) ==
  LET m == MatchingStatusRoutes(response)
  IN /\ k > Len(m)
     /\ \A i \in 1..Len(m) :
          LET x == trace[r][k - Len(m) + i - 1]
          IN x.ev = "status" /\ x.id = m[i].id /\ x.inp = response
     /\ Len(StatusCallsWith(r, response)) = Len(m)

\* C11: a matching status handler that returns undefined leaves the working
\* response unchanged: what is carried forward after it is what was carried
\* forward before it, including the replacement an earlier status route made.
C11_UndefinedKeepsWorkingResponse ==
  \A r \in Requests :
    LET sc == StatusCalls(r)
    IN \A k \in 1..Len(sc) :
         (k > 1 /\ sc[k].out = "undefined" /\ sc[k - 1].out = "rewrite"
            /\ sc[k].inp = sc[k - 1].inp)
           => sc[k].res = sc[k - 1].res

\* C12: every response the Router delivers (a route's, the 404 default, the
\* default error response) has been run through the full status route set
\* exactly once before delivery.
C12_EveryResponseThroughStatusRoutes ==
  \A r \in Requests :
    \A k \in 1..Len(trace[r]) :
      (trace[r][k].ev = "respond" /\ trace[r][k].out = "ok")
        => StatusPassBefore(r, k, Base(trace[r][k].res))

\* C13: if the onError hook returns a response and the request event has not
\* responded, the client receives that response after it has been run
\* through the status routes.
C13_OnErrorResponseThroughStatusRoutes ==
  \A r \in Requests :
    \A k \in 1..Len(trace[r]) :
      (/\ trace[r][k].ev = "onError"
       /\ trace[r][k].out = "response"
       /\ Resolved(r)
       /\ Base(requestEvent[r].value) = trace[r][k].res)
        => Len(StatusCallsWith(r, trace[r][k].res))
             = Len(MatchingStatusRoutes(trace[r][k].res))

\* the status route of a status handler call
StatusRouteOf(call) ==
  CHOOSE sr \in {statusRoutes[i] : i \in 1..Len(statusRoutes)} : sr.id = call.id

\* C14: with a status route registered for the client-error range whose
\* handler returns a rewritten response, a request to a route that returns a
\* manual 404 response gets the status route's rewritten response, with
\* status 404.
C14_ClientErrorRewriteKeeps404 ==
  \A r \in Requests :
    LET hc == HandlerCalls(r)
        sc == StatusCalls(r)
        n == Len(sc)
    IN (/\ Len(hc) = 1
        /\ hc[1].out = "response"
        /\ hc[1].res.status = NotFound
        /\ n >= 1
        /\ StatusRouteOf(sc[n]).status = <<Range("client-error")>>
        /\ sc[n].out = "rewrite"
        /\ Resolved(r)
        /\ Undisturbed(r))
         => /\ requestEvent[r].value = Rewrite(hc[1].res, sc[n].id)
            /\ requestEvent[r].value.status = NotFound
            /\ requestEvent[r].value.trail = <<sc[n].id>>

\* the only status route is on("client-error"), the route returned a 404
\* Response of its own, and the client has the rewritten response with 404
C14_Witness ==
  \E r \in Requests :
    /\ Len(statusRoutes) = 1
    /\ statusRoutes[1].status = <<Range("client-error")>>
    /\ Len(HandlerCalls(r)) = 1
    /\ HandlerCalls(r)[1].out = "response"
    /\ HandlerCalls(r)[1].res.status = NotFound
    /\ frame[r].pc = "done"
    /\ requestEvent[r].value.status = NotFound
    /\ requestEvent[r].value.by = <<"route", frame[r].route>>
    /\ requestEvent[r].value.trail = <<statusRoutes[1].id>>

\* the statuses a StatusRange tag stands for
InRange(tag, status) ==
  CASE tag = "*" -> TRUE
    [] tag = "info" -> status \in 100..199
    [] tag = "success" -> status \in 200..299
    [] tag = "redirect" -> status \in 300..399
    [] tag = "client-error" -> status \in 400..499
    [] tag = "server-error" -> status \in 500..599
    [] tag = "error" -> status \in 400..599

\* the status equals an exact-code entry or falls in a named range entry
Covers(filter, status) ==
  \E i \in 1..Len(filter) :
    IF filter[i].range = "none" THEN status = filter[i].code
                                ELSE InRange(filter[i].range, status)

\* the matches() calls recorded for request r
MatchesCalls(r) == Calls(r, "matches")

\* C15: StatusRoute.matches() is true if and only if the status equals an
\* exact-code entry of the filter or falls within a named range entry of it;
\* "*" always matches and "error" matches exactly when "client-error" or
\* "server-error" would match.
C15_MatchesIffCovered ==
  \A r \in Requests :
    \A k \in 1..Len(MatchesCalls(r)) :
      LET call == MatchesCalls(r)[k]
          filter == StatusRouteOf(call).status
          status == call.inp.status
          tags == {filter[i].range : i \in 1..Len(filter)}
      IN /\ (call.out = "true") <=> Covers(filter, status)
         /\ "*" \in tags => call.out = "true"
         /\ filter = <<Range("error")>> =>
              ((call.out = "true") <=>
                 \/ StatusMatches([id |-> 0, status |-> <<Range("client-error")>>],
                                  call.inp)
                 \/ StatusMatches([id |-> 0, status |-> <<Range("server-error")>>],
                                  call.inp))

\* matches() of a status route on("error") was called with a 500 response
\* and returned true
C15_Witness ==
  \E r \in Requests :
    /\ Len(MatchesCalls(r)) = 1
    /\ StatusRouteOf(MatchesCalls(r)[1]).status = <<Range("error")>>
    /\ MatchesCalls(r)[1].inp.status = 500
    /\ MatchesCalls(r)[1].out = "true"

\* the respond() and error() calls recorded for request r
SettleCalls(r) == SelectSeq(trace[r], LAMBDA x : x.ev \in {"respond", "error"})

\* C16: after respond() or error() has been called once on a request event,
\* any further call of respond() or error() on it throws instead of being
\* accepted, and what the event was settled with stays.
C16_SecondSettleThrows ==
  \A r \in Requests :
    LET sc == SettleCalls(r)
    IN /\ \A k \in 1..Len(sc) : (sc[k].out = "fault") <=> (k > 1)
       /\ Len(sc) >= 1 =>
            /\ requestEvent[r].responded
            /\ requestEvent[r].state =
                 (IF sc[1].ev = "respond" THEN "resolved" ELSE "rejected")
            /\ sc[1].ev = "respond" => requestEvent[r].value = sc[1].res

\* respond() was accepted, then error() and respond() were called and threw,
\* and the event still holds the first response
C16_Witness ==
  \E r \in Requests :
    /\ Len(SettleCalls(r)) = 3
    /\ SettleCalls(r)[1].ev = "respond" /\ SettleCalls(r)[1].out = "ok"
    /\ SettleCalls(r)[2].ev = "error" /\ SettleCalls(r)[2].out = "fault"
    /\ SettleCalls(r)[3].ev = "respond" /\ SettleCalls(r)[3].out = "fault"
    /\ SettleCalls(r)[3].res # SettleCalls(r)[1].res
    /\ requestEvent[r].value = SettleCalls(r)[1].res

\* C17: once the shutdown signal has been raised, no new request event is
\* dispatched by the Router.
C17_NoDispatchAfterSignal ==
  [][listener.signalled =>
       \A r \in Requests : frame[r].pc = "idle" => frame'[r].pc = "idle"]_vars

\* C18: every request in the in-flight set when the shutdown signal is
\* raised settles before the transport is closed: the Router does not tell
\* the server to close, and abandons no handler, while such an entry is
\* still pending.
C18_DrainBeforeClose ==
  (listener.aborted \/ listener.transport \in {"shutdown", "closed"})
    => /\ listener.drain = "done"
       /\ \A r \in listener.snapshot :
            requestEvent[r].state # "pending" /\ frame[r].pc # "idle"

\* both requests were in flight and pending when the signal fired, both have
\* their responses, and only then was the transport closed
C18_Witness ==
  /\ listener.waiting = Requests
  /\ listener.transport = "closed"
  /\ \A r \in Requests : Resolved(r) /\ Len(HandlerCalls(r)) = 1

\* the route handler of request r threw
HandlerThrew(r) ==
  \E k \in 1..Len(trace[r]) :
    trace[r][k].ev = "handler" /\ trace[r][k].out = "throw"

\* C19: when the abort signal passed to listen() fires while requests are in
\* flight, those requests still receive their responses and the promise
\* returned by listen() eventually resolves, given that the in-flight
\* handlers resolve.
C19_AbortedListenResolves ==
  (listener.signalled /\ listener.snapshot # {})
    ~> (\/ /\ listener.pc = "returned"
           /\ \A r \in listener.snapshot : Resolved(r)
        \/ \E r \in listener.snapshot : HandlerThrew(r))

\* the route that request r matched
RouteOf(r) ==
  CHOOSE rt \in {routes[i] : i \in 1..Len(routes)} : rt.id = frame[r].route

\* the params the Context of request r's handler holds are those of the
\* request's own pathname
OwnParams(r) ==
  frame[r].route # 0 =>
    /\ frame[r].hasParams
    /\ frame[r].params = ExtractParams(RouteOf(r).path, requestEvent[r].pathname)

HookResponded(r) ==
  \E k \in 1..Len(trace[r]) :
    \/ trace[r][k].ev = "onRequest" /\ trace[r][k].out = "respond"
    \/ trace[r][k].ev = "oob" /\ trace[r][k].res.by = <<"onRequest", 0>>

\* C21: an error thrown by a handler while one request is processed is caught
\* within that request's own #handle call, and the response and settling of
\* any other request processed at the same time are what they are without it.
C21_HandlerErrorStaysInRequest ==
  \A q \in Requests :
    HandlerThrew(q) =>
      /\ frame[q].pc = "rejected" =>
           \E k \in 1..Len(trace[q]) :
             trace[q][k].ev # "handler" /\ trace[q][k].out = "throw"
      /\ (Returned(q) /\ Undisturbed(q)) =>
           /\ Resolved(q)
           /\ requestEvent[q].value = ErrorResponse(frame[q].cause)
      /\ \A r \in Requests \ {q} :
           ~HandlerThrew(r) =>
             /\ frame[r].cause = NoErr
             /\ Calls(r, "onError") = <<>>
             /\ (Returned(r) /\ Undisturbed(r)) =>
                  /\ Resolved(r)
                  /\ HandlerCalls(r) # <<>>
                  /\ requestEvent[r].value = HandlerCalls(r)[1].res

\* two requests were in flight together when the signal fired; the handler of
\* one threw and its client has the 500, the other's client has its own 200
C21_Witness ==
  \E q, r \in Requests :
    /\ q # r
    /\ listener.waiting = {q, r}
    /\ HandlerThrew(q)
    /\ Resolved(q)
    /\ requestEvent[q].value.status = InternalServerError
    /\ ~HandlerThrew(r)
    /\ Resolved(r)
    /\ requestEvent[r].value = Resp(OK, "json", "route", frame[r].route)

\* C22: if the onRequest hook responds to the RequestEvent, the Router from
\* then on invokes no route handler for that request and does not itself
\* call respond() for it.
C22_HookResponseEndsDispatch ==
  [][\A r \in Requests :
       HookResponded(r) =>
         /\ ~(frame[r].pc # "handling" /\ frame'[r].pc = "handling")
         /\ Len(Calls(r, "respond"))' = Len(Calls(r, "respond"))]_vars

\* the request event of r was responded to by user code rather than by the
\* Router: by a hook, a status handler, or inside a route handler
RespondedOutOfBand(r) ==
  \E k \in 1..Len(trace[r]) :
    trace[r][k].out = "respond" /\ trace[r][k].ev # "handler"

\* C23: onHandled is fired exactly once for every dispatched request,
\* whichever path the request took (route response, not found, error
\* recovery, or already responded by a hook or handler).
C23_OnHandledOncePerRequest ==
  \A r \in Requests :
    /\ Len(Calls(r, "onHandled")) <= 1
    /\ (frame[r].pc = "done" /\ "onHandled" \in hooks)
         => Len(Calls(r, "onHandled")) = 1

\* C24: when the request was responded to out-of-band (by a hook, or by
\* upgrade()/sendEvents() inside a handler), onHandled fires without a
\* response in its details, and the response in the details of onHandled is
\* only ever the response that was returned to the client.
C24_OnHandledResponseIsTheClients ==
  \A r \in Requests :
    LET oh == Calls(r, "onHandled")
    IN /\ \A k \in 1..Len(oh) :
            oh[k].res = NoResponse \/ oh[k].res = requestEvent[r].value
       /\ (frame[r].pc = "done" /\ "onHandled" \in hooks /\ RespondedOutOfBand(r))
            => Len(oh) = 1 /\ oh[1].res = NoResponse

\* C25: for every request, the onRequest hook is invoked before any route
\* handler is invoked for that request.
C25_OnRequestBeforeHandlers ==
  \A r \in Requests :
    ("onRequest" \in hooks /\ Dispatched(r)) =>
      /\ trace[r] # <<>>
      /\ trace[r][1].ev = "onRequest"
      /\ Len(Calls(r, "onRequest")) = 1
      /\ \A k \in 1..Len(trace[r]) : trace[r][k].ev = "handler" => k > 1

\* a Router with an onRequest hook has called it, and then the handler of
\* the route the request matched, which has returned
C25_Witness ==
  \E r \in Requests :
    /\ "onRequest" \in hooks
    /\ Len(trace[r]) >= 2
    /\ trace[r][1].ev = "onRequest"
    /\ trace[r][1].out = "none"
    /\ trace[r][2].ev = "handler"

\* #handle ran its status pass for request r on a 404: the not found path
\* was taken, or the route handler returned a response with status 404
NotFoundCase(r) ==
  \/ frame[r].site = "notfound"
  \/ /\ frame[r].site = "route"
     /\ HandlerCalls(r)[Len(HandlerCalls(r))].res.status = NotFound

\* the onRequest hook of r neither responded nor threw
Scanned(r) ==
  /\ frame[r].pc \notin {"idle", "scan", "after"}
  /\ \A k \in 1..Len(trace[r]) :
       trace[r][k].ev = "onRequest" => trace[r][k].out \notin {"respond", "throw"}

\* C26: whenever no route matched a request or the working response has
\* status 404, the onNotFound hook is invoked for that request (it is being
\* awaited, or it has completed, once), and before any status handler is
\* invoked for that request.
C26_OnNotFoundBeforeStatusHandlers ==
  \A r \in Requests :
    "onNotFound" \in hooks =>
      /\ (Scanned(r) /\ MatchingRoutes(r) = {}) => frame[r].site = "notfound"
      /\ NotFoundCase(r) =>
           \/ frame[r].pc = "hs_hook" /\ Calls(r, "onNotFound") = <<>>
           \/ Len(Calls(r, "onNotFound")) = 1
      /\ \A k, j \in 1..Len(trace[r]) :
           (trace[r][k].ev = "onNotFound" /\ trace[r][j].ev = "status") => k < j

\* no route matched, the onNotFound hook was called with the default 404 and
\* returned nothing, then the status route registered for 404 was called
C26_Witness ==
  \E r \in Requests :
    /\ MatchingRoutes(r) = {}
    /\ frame[r].pc = "done"
    /\ Len(Calls(r, "onNotFound")) = 1
    /\ Calls(r, "onNotFound")[1].inp = NotFoundResponse
    /\ Len(StatusCalls(r)) >= 1
    /\ StatusCalls(r)[1].inp = NotFoundResponse

\* C27: whenever a route handler or a status handler throws, the error is
\* delivered to the onError hook for that request.
C27_ThrownErrorsReachOnError ==
  \A r \in Requests :
    ("onError" \in hooks /\ Returned(r)) =>
      \A k \in 1..Len(trace[r]) :
        (trace[r][k].ev \in {"handler", "status"} /\ trace[r][k].out = "throw")
          => \E j \in (k + 1)..Len(trace[r]) : trace[r][j].ev = "onError"

\* the HTTP method a registration call is named after
MethodNamed(name) ==
  CASE name = "get" -> "GET"
    [] name = "head" -> "HEAD"
    [] name = "options" -> "OPTIONS"
    [] name = "post" -> "POST"
    [] name = "put" -> "PUT"
    [] name = "patch" -> "PATCH"
    [] name = "delete" -> "DELETE"
    [] OTHER -> "none"

\* the positions of the routes registered by name whose path matches the
\* pathname of request r and whose name is the request's method
NamedFor(r) ==
  {i \in 1..Len(routes) :
     /\ PathMatch(routes[i].path, requestEvent[r].pathname)
     /\ MethodNamed(routes[i].via) = requestEvent[r].method}

\* the route with identity id
RouteWithId(id) == CHOOSE rt \in {routes[i] : i \in 1..Len(routes)} : rt.id = id

\* C28: a route registered through get(), head(), options(), post(), put(),
\* patch() or delete() responds to requests using exactly that HTTP method:
\* a request of that method for its path is handled by such a route, and its
\* handler is invoked for no request of another method.
C28_NamedRouteHandlesItsMethod ==
  \A r \in Requests :
    /\ (Returned(r) /\ NamedFor(r) # {}) => HandlerCalls(r) # <<>>
    /\ \A k \in 1..Len(HandlerCalls(r)) :
         MethodNamed(RouteWithId(HandlerCalls(r)[k].id).via) = requestEvent[r].method

\* the calls of ctx.body() recorded for request r
BodyReads(r) == Calls(r, "body")

\* C29: if a request body does not match the route's body schema and no
\* invalid handler was supplied, an error is thrown, processing of the
\* request by the handler stops, and the client receives a 400 Bad Request
\* response.
C29_InvalidBodyIsBadRequest ==
  \A r \in Requests :
    (/\ frame[r].pc = "done"
     /\ frame[r].route # 0
     /\ RouteWithId(frame[r].route).schema = "body"
     /\ requestEvent[r].body # "valid"
     /\ \A k \in 1..Len(trace[r]) : trace[r][k].out # "response")
      => /\ HandlerCalls(r)[1].out = "throw"
         /\ requestEvent[r].value.status = BadRequest

\* C30: the in-flight set holds the response promise of every request whose
\* dispatch has begun and whose response has not yet settled, and of no
\* request that was not dispatched.
C30_InFlightSetIsThePendingRequests ==
  \A r \in Requests :
    /\ (Dispatched(r) /\ requestEvent[r].state = "pending") => r \in handling
    /\ r \in handling => Dispatched(r)

\* a lifecycle hook threw while request r was handled
HookThrew(r) ==
  \E k \in 1..Len(trace[r]) :
    /\ trace[r][k].ev \in {"onRequest", "onNotFound", "onError", "onHandled"}
    /\ trace[r][k].out = "throw"

\* C31: if a lifecycle hook (onRequest, onNotFound, onError or onHandled)
\* itself throws, the RequestEvent is still settled, resolved or rejected,
\* once #handle has returned.
C31_HookThrowStillSettles ==
  \A r \in Requests :
    (Returned(r) /\ HookThrew(r)) => requestEvent[r].state # "pending"

\* the positions of the routes whose path matches the pathname of request r
\* but whose methods do not include its method
NotAllowedRoutes(r) ==
  {i \in 1..Len(routes) :
     /\ PathMatch(routes[i].path, requestEvent[r].pathname)
     /\ requestEvent[r].method \notin routes[i].methods}

C33_ThrowEndsScan ==
  \A r \in Requests :
    LET hc == HandlerCalls(r)
    IN \A k \in 1..Len(hc) :
         hc[k].out = "throw" =>
           /\ Len(hc) = k
           /\ frame[r].pc \notin {"scan", "handling"}

\* two routes match, the first one's handler threw, and #handle returned
\* with the error response sent and the second route's handler not called
C33_Witness ==
  \E r \in Requests :
    /\ LaterMatch(r)
    /\ frame[r].pc = "done"
    /\ Len(HandlerCalls(r)) = 1
    /\ HandlerCalls(r)[1].out = "throw"
    /\ requestEvent[r].value = ErrorResponse(frame[r].cause)

\* the position in trace[r] at which the response promise of r was rejected
RejectedAt(r) ==
  {k \in 1..Len(trace[r]) : trace[r][k].ev = "oob" /\ trace[r][k].out = "error"}

Serving == listener.pc = "loop" /\ listener.transport = "open" /\ ~DrainReady

\* the `for await` loop can dispatch request r
CanDispatch(r) ==
  ENABLED (\E p \in Pathnames, out \in {"absent", "none", "respond", "throw"} :
             Accept(r, "GET", p, out))

\* the handling of request r can take its next step
CanProceed(r) ==
  ENABLED (\/ ScanNext(r)
           \/ \E res \in ListenResults : HandlerDone(r, res, FALSE)
           \/ HsChain(r, <<>>)
           \/ After(r)
           \/ \E out \in HookOutcomes \cup {"absent"},
                 s \in OnErrorStatuses \cup {0} : Error(r, out, s)
           \/ \E out \in {"absent", "none", "throw"} : Finish(r, out))

\* C35: requests complete independently: while the handler of one request
\* is pending, another request that arrives is dispatched, and every step
\* of its handling up to its response can be taken.
C35_PendingHandlerBlocksNoRequest ==
  \A q \in Requests : \A r \in Requests \ {q} :
    frame[q].pc = "handling" =>
      /\ (Serving /\ frame[r].pc = "idle") => CanDispatch(r)
      /\ frame[r].pc \notin {"idle", "done", "rejected"} => CanProceed(r)

\* the handler of request 1 is pending and request 2 has its response
C35_Witness ==
  /\ frame[1].pc = "handling"
  /\ requestEvent[2].state = "resolved"
  /\ \E k \in 1..Len(trace[2]) : trace[2][k].ev = "respond"

\* the ids of the routes removed since request r was dispatched
RemovedDuring(r, kind) ==
  {trace[r][k].id : k \in {j \in 1..Len(trace[r]) :
                             trace[r][j].ev = "remove" /\ trace[r][j].out = kind}}

\* the routes that were registered when the scan of request r began, in
\* registration order
Captured(r) ==
  SelectSeq(RegisteredRoutes,
            LAMBDA rt : \/ rt.id \in RemovedDuring(r, "route")
                        \/ \E i \in 1..Len(routes) : routes[i].id = rt.id)

\* the positions in Captured(r) of the routes that match request r
CapturedHits(r) ==
  {i \in 1..Len(Captured(r)) :
     /\ requestEvent[r].method \in Captured(r)[i].methods
     /\ PathMatch(Captured(r)[i].path, requestEvent[r].pathname)}

Ids(seq) == {seq[i].id : i \in 1..Len(seq)}

\* the ids of a sequence of registrations, in its order
IdSeq(seq) == [i \in 1..Len(seq) |-> seq[i].id]

\* `after` is `before` without exactly one of its registrations, the others
\* in their order
OneRemoved(before, after) ==
  \E id \in Ids(before) :
    IdSeq(after) = SelectSeq(IdSeq(before), LAMBDA x : x # id)

\* C37: remove() removes exactly that one Route or StatusRoute: a request
\* dispatched afterwards never has the removed registration's handler
\* invoked, and a removal leaves all other registrations, of both kinds,
\* registered in their original order.
C37_RemoveRemovesExactlyOne ==
  /\ [](\A r \in Requests :
          /\ \A k \in 1..Len(HandlerCalls(r)) :
               HandlerCalls(r)[k].id \in Ids(routes) \cup RemovedDuring(r, "route")
          /\ \A k \in 1..Len(StatusCalls(r)) :
               StatusCalls(r)[k].id \in
                 Ids(statusRoutes) \cup RemovedDuring(r, "status"))
  /\ [][/\ IdSeq(routes') # IdSeq(routes) =>
             /\ OneRemoved(routes, routes')
             /\ IdSeq(statusRoutes') = IdSeq(statusRoutes)
        /\ IdSeq(statusRoutes') # IdSeq(statusRoutes) =>
             /\ OneRemoved(statusRoutes, statusRoutes')
             /\ IdSeq(routes') = IdSeq(routes)]_vars

\* get("/a") was removed before GET /a was dispatched, and the request was
\* handled by the route registered after it; the first status route was
\* removed too and the second one was called
C37_Witness ==
  \E r \in Requests :
    /\ requestEvent[r].pathname = <<"a">>
    /\ Ids(routes) = {2}
    /\ Ids(statusRoutes) = {2}
    /\ RemovedDuring(r, "route") = {} /\ RemovedDuring(r, "status") = {}
    /\ Len(HandlerCalls(r)) = 1 /\ HandlerCalls(r)[1].id = 2
    /\ Len(StatusCalls(r)) = 1 /\ StatusCalls(r)[1].id = 2

\* C38: every header a handler sets on the responseHeaders bag is on the
\* response delivered to the client, whether the handler returned a
\* Response, a value serialised to JSON, or nothing.
C38_HandlerHeadersReachClient ==
  \A r \in Requests :
    (/\ Resolved(r)
     /\ requestEvent[r].value.by[1] = "route"
     /\ Len(HandlerCalls(r)) = 1
     /\ HandlerCalls(r)[1].out \in {"response", "value", "undefined"})
      => HandlerHeaders \subseteq DeliveredHeaders(requestEvent[r].value, HandlerHeaders)

\* the response delivered for request r is a pre-built invalid response of
\* schema validation made by `maker`: "route" for response validation in
\* PathRoute.handle(), "handler" for ctx.body() and ctx.queryParams()
InvalidDelivered(r, maker) ==
  /\ Resolved(r)
  /\ requestEvent[r].value.body = "invalid"
  /\ requestEvent[r].value.by[1] = maker

\* every status route that matches the invalid response delivered for
\* request r was called with it, in registration order
ThroughStatusChain(r) ==
  LET sent == [requestEvent[r].value EXCEPT !.trail = <<>>]
      m == MatchingStatusRoutes(sent)
  IN /\ Len(StatusCalls(r)) = Len(m)
     /\ \A i \in 1..Len(m) :
          StatusCalls(r)[i].id = m[i].id /\ StatusCalls(r)[i].inp = sent

\* C39: a pre-built invalid response of schema validation, for a body, a
\* query string or a response, goes through the status routes before it is
\* delivered to the client.
C39_InvalidResponseThroughStatusChain ==
  \A r \in Requests :
    (InvalidDelivered(r, "route") \/ InvalidDelivered(r, "handler"))
      => ThroughStatusChain(r)

\* C40: when the promise listen() returned resolves, no request the Router
\* dispatched is unsettled, those dispatched after the shutdown signal was
\* raised included.
C40_ListenResolvesAfterAllSettled ==
  listener.pc = "returned" =>
    \A r \in Requests : Dispatched(r) => requestEvent[r].state # "pending"

====
